---- MODULE Spec2Model ----
(***************************************************************************)
(* arcade_universe: SpritePlacer (dataset.py), the scene compositor with   *)
(* rejection sampling.  One SpritePlacer instance, its counters, and the   *)
(* generator created by __iter__, stepped one trial at a time.  Corruptor  *)
(* (corruptor.py): the factory get, and two instances of one variant built *)
(* from the same arguments and called with the same inputs.                *)
(***************************************************************************)
EXTENDS Integers, Sequences, FiniteSets, TLC

\* ------------------------------------------------------------------ bounds
MaxTrials == 2      \* placement descriptions pulled from gen per behaviour
MaxSprites == 2     \* sprites per placement description
self_w == 3         \* gen.w, width of the scene
self_h == 2         \* gen.h, height of the scene
nout == 1           \* gen.nout, length of the target
MaxCrowdedTrials == 2001  \* descriptions pulled from a crowded source
MaxCalls == 2       \* calls made on each corruptor
MaxLen == 2         \* elements of an input array
MaxLevel == 2       \* corruption_level, in steps of 1 / MaxLevel
MaxSeed == 1        \* seeds 0 .. MaxSeed, and the default
Res == 2            \* array elements and noise are multiples of 1 / Res

\* ----------------------------------------------------- program constants
WarnEvery == 1000   \* ntrials % 1000 == 0
DefaultSeed == 2001 \* rng=2001
SeedBelow == 1073741824   \* 2 ** 30
Wrap == 255         \* % 255

\* ------------------------------------------------------------ arithmetic
Max(i, j) == IF i >= j THEN i ELSE j
Min(i, j) == IF i <= j THEN i ELSE j

RECURSIVE Gcd(_, _)
Gcd(i, j) == IF j = 0 THEN i ELSE Gcd(j, i % j)

\* ------------------------------------------------------------- the inputs
\* Sprite objects the source can hand out: patch of shape (h, w), mask of
\* shape (mh, mw) = (h + 2*marginh, w + 2*marginw).
Sprites ==
    { [id |-> 1, h |-> 1, w |-> 1, marginh |-> 1, marginw |-> 2],
      [id |-> 2, h |-> 1, w |-> 2, marginh |-> 0, marginw |-> 0] }

mh(sprite) == sprite.h + 2 * sprite.marginh
mw(sprite) == sprite.w + 2 * sprite.marginw

\* sprite.mask: binary, 1 on every cell of the margined footprint
Mask(sprite) ==
    [rc \in (0 .. mh(sprite) - 1) \X (0 .. mw(sprite) - 1) |-> 1]

\* sprite.patch: every pixel of every sprite has its own non-zero value
Patch(sprite) ==
    [rc \in (0 .. sprite.h - 1) \X (0 .. sprite.w - 1) |->
        10 * sprite.id + rc[1] * sprite.w + rc[2] + 1]

Cells == (0 .. self_h - 1) \X (0 .. self_w - 1)

\* ((x, y), sprite) with 0 <= x < w, 0 <= y < h
Placements ==
    [x : 0 .. self_w - 1, y : 0 .. self_h - 1, sprite : Sprites]

Descriptions == UNION { [1 .. n -> Placements] : n \in 0 .. MaxSprites }

\* The target the source pairs with a description: the scene is labelled
\* with its number of sprites, so different scenes carry different targets
\* and none carries the zeros of a new target vector.
TargetOf(desc) == [k \in 1 .. nout |-> Len(desc) + 1]

\* The canvas cells under the margined footprint
\* [y - marginh, y + h + marginh) x [x - marginw, x + w + marginw).
Footprint(p) ==
    { rc \in Cells :
        /\ p.y - p.sprite.marginh <= rc[1]
        /\ rc[1] < p.y + p.sprite.h + p.sprite.marginh
        /\ p.x - p.sprite.marginw <= rc[2]
        /\ rc[2] < p.x + p.sprite.w + p.sprite.marginw }

\* Two margined footprints share a canvas cell: their row ranges meet on the
\* canvas and so do their column ranges.
Meet(p, q) ==
    /\ Max(Max(p.y - p.sprite.marginh, q.y - q.sprite.marginh), 0)
          < Min(Min(p.y + p.sprite.h + p.sprite.marginh,
                    q.y + q.sprite.h + q.sprite.marginh), self_h)
    /\ Max(Max(p.x - p.sprite.marginw, q.x - q.sprite.marginw), 0)
          < Min(Min(p.x + p.sprite.w + p.sprite.marginw,
                    q.x + q.sprite.w + q.sprite.marginw), self_w)

HasOverlap(desc) ==
    \E i, j \in 1 .. Len(desc) : i < j /\ Meet(desc[i], desc[j])

\* What iter(gen) proposes, by the kind of source.
Proposals(kind) ==
    CASE kind = "any" -> Descriptions
      [] kind = "overlapping" -> { d \in Descriptions : HasOverlap(d) }
      [] kind = "disjoint" -> { d \in Descriptions : ~HasOverlap(d) }

\* A crowded source: its first description may be a scene that fits, every
\* later one stacks two sprites on each other.
Wide == CHOOSE sprite \in Sprites : sprite.id = 2

Crowded(k) ==
    { <<[x |-> 0, y |-> 0, sprite |-> Wide], [x |-> 0, y |-> 0, sprite |-> Wide]>>,
      <<[x |-> 0, y |-> 0, sprite |-> Wide], [x |-> 1, y |-> 0, sprite |-> Wide]>> }
    \cup (IF k = 1 THEN { <<[x |-> 0, y |-> 0, sprite |-> Wide]>> } ELSE {})

\* ------------------------------------------------------- numpy semantics
\* A slice bound i of an axis of length n.
SliceIdx(i, n) == IF i < 0 THEN Max(i + n, 0) ELSE Min(i, n)
SliceLen(lo, hi, n) == Max(SliceIdx(hi, n) - SliceIdx(lo, n), 0)

\* A source axis of length s broadcasts into a destination axis of length d.
Broadcasts(s, d) == s = d \/ s = 1

Zeros == [rc \in Cells |-> 0]

\* ------------------------------------------------- the collision accumulator
\* The clipping of lines 139-143 cutting the mask by what sticks out past
\* the edge, b - h and d - w, with the destination still ending at h-1, w-1.
MaskSliceToEdge(p) ==
    LET sprite == p.sprite
        a == p.y - sprite.marginh
        b == p.y + sprite.h + sprite.marginh
        c == p.x - sprite.marginw
        d == p.x + sprite.w + sprite.marginw
    IN  IF a < 0 \/ b >= self_h \/ c < 0 \/ d >= self_w
        THEN [ ba |-> (IF a < 0 THEN -a ELSE 0),
               bb |-> mh(sprite) - (IF b >= self_h THEN b - self_h ELSE 0),
               bc |-> (IF c < 0 THEN -c ELSE 0),
               bd |-> mw(sprite) - (IF d >= self_w THEN d - self_w ELSE 0),
               a |-> Max(0, a), b |-> Min(b, self_h - 1),
               c |-> Max(0, c), d |-> Min(d, self_w - 1) ]
        ELSE [ ba |-> 0, bb |-> mh(sprite), bc |-> 0, bd |-> mw(sprite),
               a |-> a, b |-> b, c |-> c, d |-> d ]

\* The slices of one `collider[a:b, c:d] += sprite.mask[ba:bb, bc:bd]`:
\* the edge-clipped branch, or the full mask when the footprint is inside.
MaskSlice(p) ==
    LET sprite == p.sprite
        a == p.y - sprite.marginh
        b == p.y + sprite.h + sprite.marginh
        c == p.x - sprite.marginw
        d == p.x + sprite.w + sprite.marginw
    IN  IF a < 0 \/ b >= self_h \/ c < 0 \/ d >= self_w
        THEN [ ba |-> (IF a < 0 THEN -a ELSE 0),
               bb |-> mh(sprite) - (IF b >= self_h THEN b - self_h + 1 ELSE 0),
               bc |-> (IF c < 0 THEN -c ELSE 0),
               bd |-> mw(sprite) - (IF d >= self_w THEN d - self_w + 1 ELSE 0),
               a |-> Max(0, a), b |-> Min(b, self_h - 1),
               c |-> Max(0, c), d |-> Min(d, self_w - 1) ]
        ELSE [ ba |-> 0, bb |-> mh(sprite), bc |-> 0, bd |-> mw(sprite),
               a |-> a, b |-> b, c |-> c, d |-> d ]

\* The shapes of the two sides of the += agree (or broadcast).
MaskFits(p) ==
    LET sl == MaskSlice(p)
    IN  /\ Broadcasts(SliceLen(sl.ba, sl.bb, mh(p.sprite)),
                      SliceLen(sl.a, sl.b, self_h))
        /\ Broadcasts(SliceLen(sl.bc, sl.bd, mw(p.sprite)),
                      SliceLen(sl.c, sl.d, self_w))

\* The accumulator cells the += writes.
MaskDest(p) ==
    LET sl == MaskSlice(p)
        r0 == SliceIdx(sl.a, self_h)
        r1 == r0 + SliceLen(sl.a, sl.b, self_h)
        c0 == SliceIdx(sl.c, self_w)
        c1 == c0 + SliceLen(sl.c, sl.d, self_w)
    IN  { rc \in Cells : r0 <= rc[1] /\ rc[1] < r1 /\ c0 <= rc[2] /\ rc[2] < c1 }

\* Where the mask slice starts, where the accumulator slice starts, and
\* whether each mask axis is walked (1) or broadcast from one row/column (0).
MaskOrigin(p) ==
    LET sl == MaskSlice(p)
    IN  [ sr |-> SliceIdx(sl.ba, mh(p.sprite)),
          sc |-> SliceIdx(sl.bc, mw(p.sprite)),
          r0 |-> SliceIdx(sl.a, self_h),
          c0 |-> SliceIdx(sl.c, self_w),
          dr |-> IF SliceLen(sl.ba, sl.bb, mh(p.sprite)) = 1 THEN 0 ELSE 1,
          dc |-> IF SliceLen(sl.bc, sl.bd, mw(p.sprite)) = 1 THEN 0 ELSE 1 ]

\* The mask cell added to accumulator cell rc of MaskDest(p).
MaskSource(o, rc) ==
    <<o.sr + o.dr * (rc[1] - o.r0), o.sc + o.dc * (rc[2] - o.c0)>>

Accumulate(coll, p) ==
    LET dest == MaskDest(p)
        mask == Mask(p.sprite)
        o    == MaskOrigin(p)
    IN  [rc \in Cells |->
            IF rc \in dest THEN coll[rc] + mask[MaskSource(o, rc)]
            ELSE coll[rc]]

\* for (x, y), sprite in description: collider[...] += ...   from sprite i on;
\* stops at the first += whose shapes do not agree.
RECURSIVE Collide(_, _, _)
Collide(coll, desc, i) ==
    IF i > Len(desc) THEN [ok |-> TRUE, collider |-> coll]
    ELSE IF ~MaskFits(desc[i]) THEN [ok |-> FALSE, collider |-> coll]
    ELSE Collide(Accumulate(coll, desc[i]), desc, i + 1)

\* Overlap with the sentinels off by one: a cell under a single footprint
\* already counts as an overlap.
OverlapFromOne(coll) ==
    \E rc \in Cells : coll[rc] > 255 \/ coll[rc] = 1 \/ coll[rc] = 2

\* numpy.any(collider > 255) or numpy.any(collider == 2) or
\* numpy.any(collider == 3)
Overlap(coll) ==
    \E rc \in Cells : coll[rc] > 255 \/ coll[rc] = 2 \/ coll[rc] = 3

\* ------------------------------------------------------------- the canvas
\* data[y:y + sprite.h, x:x + sprite.w] = sprite.patch
PatchFits(p) ==
    /\ Broadcasts(p.sprite.h, SliceLen(p.y, p.y + p.sprite.h, self_h))
    /\ Broadcasts(p.sprite.w, SliceLen(p.x, p.x + p.sprite.w, self_w))

PatchDest(p) ==
    LET r1 == p.y + SliceLen(p.y, p.y + p.sprite.h, self_h)
        c1 == p.x + SliceLen(p.x, p.x + p.sprite.w, self_w)
    IN  { rc \in Cells : p.y <= rc[1] /\ rc[1] < r1 /\ p.x <= rc[2] /\ rc[2] < c1 }

\* PaintOne that leaves the pixels an earlier sprite painted.
PaintOneUnder(dat, p) ==
    LET dest == PatchDest(p)
        patch == Patch(p.sprite)
    IN  [rc \in Cells |->
            IF rc \in dest /\ dat[rc] <= 0
            THEN patch[<<IF p.sprite.h = 1 THEN 0 ELSE rc[1] - p.y,
                         IF p.sprite.w = 1 THEN 0 ELSE rc[2] - p.x>>]
            ELSE dat[rc]]

PaintOne(dat, p) ==
    LET dest == PatchDest(p)
        patch == Patch(p.sprite)
    IN  [rc \in Cells |->
            IF rc \in dest
            THEN patch[<<IF p.sprite.h = 1 THEN 0 ELSE rc[1] - p.y,
                         IF p.sprite.w = 1 THEN 0 ELSE rc[2] - p.x>>]
            ELSE dat[rc]]

\* for (x, y), sprite in description: data[...] = sprite.patch   from sprite
\* i on; stops at the first assignment whose shapes do not agree.
RECURSIVE Paint(_, _, _)
Paint(dat, desc, i) ==
    IF i > Len(desc) THEN [ok |-> TRUE, data |-> dat]
    ELSE IF ~PatchFits(desc[i]) THEN [ok |-> FALSE, data |-> dat]
    ELSE Paint(PaintOne(dat, desc[i]), desc, i + 1)

\* data.reshape(self.nin): row-major, element r * w + c
reshape(dat) ==
    [k \in 0 .. self_w * self_h - 1 |-> dat[<<k \div self_w, k % self_w>>]]

\* perlin_gen.get_background_noise(): the k-th field requested, every
\* field different from every other and from the zero canvas
NoiseField(k) == [rc \in Cells |-> 0 - k]

\* ----------------------------------------------------------------- state
VARIABLES
    gen,              \* the kind of source behind self.gen
    collision_check,  \* self.collision_check
    enable_perlin,    \* self.enable_perlin
    out_format,       \* gen.out_format
    n_successes,      \* self.n_successes
    n_rejections,     \* self.n_rejections
    pc,               \* where the generator made by __iter__ stands
    ntrials,          \* trials made for the sample being produced
    description,      \* the placement description of the current trial
    target,           \* the target pulled with it
    collider,         \* the collision accumulator
    data,             \* the canvas
    targets,          \* the target vector of the sample
    pulled,           \* descriptions pulled from gen through this instance
    yielded,          \* samples yielded by this instance
    sample_pulls,     \* descriptions pulled for the sample being produced
    perlin_calls,     \* fields requested from perlin_gen
    warnings,         \* warnings written to stderr
    rate,             \* what rejection_rate() returned, when it was the
                      \* caller's latest operation
    got,              \* what get(name) came to
    corruption_level, \* the corruption_level (stdev) argument
    rng,              \* the rng argument, a seed
    built,            \* the corruptors constructed so far
    s_rng,            \* self.s_rng of each corruptor
    pending,          \* the call made on one corruptor, not yet on the other
    returned,         \* the latest call made on both: input and outputs
    calls             \* calls made on both corruptors

vars == <<gen, collision_check, enable_perlin, out_format, n_successes,
          n_rejections, pc,
          ntrials, description, target, collider, data, targets, pulled,
          yielded, sample_pulls, perlin_calls, warnings, rate, got,
          corruption_level, rng, built, s_rng, pending, returned, calls>>

\* The state of corruptor.py.
corruptor == <<got, corruption_level, rng, built, s_rng, pending, returned,
               calls>>

config == <<gen, collision_check, enable_perlin, out_format>>

\* What a call returned: nothing yet, None, or the float num / den.
NoCall == [result |-> "no call", num |-> 0, den |-> 0]
Null == [result |-> "None", num |-> 0, den |-> 0]
Float(num, den) == [result |-> "float", num |-> num, den |-> den]

\* The two corruptors of the model, in the order they are named.
Instances == {"A", "B"}

\* No result, of get or of a call.
Nothing == [ok |-> FALSE, value |-> <<>>, error |-> "none"]

Uncalled == [who |-> "none", x |-> <<>>, out |-> Nothing]

\* corruptor.py imported and not used.
NoCorruptor ==
    /\ got = Nothing
    /\ corruption_level = 0
    /\ rng = DefaultSeed
    /\ built = {}
    /\ s_rng = [i \in Instances |-> 0]
    /\ pending = Uncalled
    /\ returned = [x |-> <<>>, A |-> Nothing, B |-> Nothing]
    /\ calls = 0

\* SpritePlacer(gen, collision_check, enable_perlin)
Constructed ==
    /\ NoCorruptor
    /\ gen \in {"any", "overlapping", "disjoint", "crowded"}
    /\ collision_check \in BOOLEAN
    /\ enable_perlin \in BOOLEAN
    /\ out_format = "array"
    /\ n_successes = 0
    /\ n_rejections = 0
    /\ pc = "constructed"
    /\ ntrials = 0
    /\ description = <<>>
    /\ target = [k \in 1 .. nout |-> 0]
    /\ collider = Zeros
    /\ data = Zeros
    /\ targets = [k \in 1 .. nout |-> 0]
    /\ pulled = 0
    /\ yielded = 0
    /\ sample_pulls = 0
    /\ perlin_calls = 0
    /\ warnings = 0
    /\ rate = NoCall

\* A placer, on zero canvases, over a source that proposes whatever it likes.
Init == Constructed /\ gen = "any" /\ ~enable_perlin

\* rejection_rate dividing the successes instead of the rejections.
success_rate ==
    LET total == n_successes + n_rejections
    IN  IF total = 0 THEN Null
        ELSE Float(n_successes \div Gcd(n_successes, total),
                   total \div Gcd(n_successes, total))

\* float(self.n_rejections) / total, as the fraction in lowest terms
rejection_rate ==
    LET total == n_successes + n_rejections
    IN  IF total = 0 THEN Null
        ELSE Float(n_rejections \div Gcd(n_rejections, total),
                   total \div Gcd(n_rejections, total))

\* The descriptions the model lets the instance pull from its source.
PullCap == IF gen = "crowded" THEN MaxCrowdedTrials ELSE MaxTrials

\* What gen.next() may return now.
Offered == IF gen = "crowded" THEN Crowded(pulled + 1) ELSE Proposals(gen)

\* The warning without its `self.n_successes == 0`.
WarnsAfterSuccess == ntrials # 0 /\ ntrials % WarnEvery = 0

\* if self.n_successes == 0 and ntrials and ntrials % 1000 == 0
Warns == n_successes = 0 /\ ntrials # 0 /\ ntrials % WarnEvery = 0

\* Control is with the caller: no generator yet, one suspended at its
\* yield, or one that ended with an exception.
WithCaller == pc \in {"constructed", "yielded", "raised"}

\* The top of `while True`: a new canvas and target vector for the sample.
\* What the last trial left in description, target and the accumulator is
\* dead: the next trial rebinds the first two and refills the third before
\* any read.
NewSample ==
    /\ IF enable_perlin
       THEN /\ data' = NoiseField(perlin_calls + 1)
            /\ perlin_calls' = perlin_calls + 1
       ELSE /\ data' = Zeros
            /\ perlin_calls' = perlin_calls
    /\ targets' = [k \in 1 .. nout |-> 0]
    /\ ntrials' = 0
    /\ sample_pulls' = 0
    /\ description' = <<>>
    /\ target' = [k \in 1 .. nout |-> 0]
    /\ collider' = Zeros
    /\ pc' = "trial"
    /\ rate' = NoCall

\* iter(placer) and the first next(): a new generator with a new
\* accumulator, run up to its first trial.
Iter ==
    /\ WithCaller
    /\ pulled < PullCap
    /\ NewSample
    /\ UNCHANGED <<corruptor, config, n_successes, n_rejections, pulled,
                   yielded, warnings>>

\* next() on the generator suspended at its yield.
Resume ==
    /\ pc = "yielded"
    /\ pulled < PullCap
    /\ NewSample
    /\ UNCHANGED <<corruptor, config, n_successes, n_rejections, pulled,
                   yielded, warnings>>

\* Accept without `self.n_successes += 1`.
AcceptUncounted(desc, tgt) ==
    LET painted == Paint(data, desc, 1)
    IN  /\ data' = painted.data
        /\ n_successes' = n_successes
        /\ IF painted.ok
           THEN /\ targets' = tgt
                /\ yielded' = yielded + 1
                /\ pc' = "yielded"
           ELSE /\ UNCHANGED <<targets, yielded>>
                /\ pc' = "raised"

\* Paint the accepted description, count it and yield; the generator ends
\* with the ValueError of the first patch that does not fit its slice.
Accept(desc, tgt) ==
    LET painted == Paint(data, desc, 1)
    IN  /\ data' = painted.data
        /\ IF painted.ok
           THEN /\ targets' = tgt
                /\ n_successes' = n_successes + 1
                /\ yielded' = yielded + 1
                /\ pc' = "yielded"
           ELSE /\ UNCHANGED <<targets, n_successes, yielded>>
                /\ pc' = "raised"

\* One trial: pull a description and judge it.
Trial ==
    /\ pc = "trial"
    /\ pulled < PullCap
    /\ \E desc \in Offered : \E tgt \in {TargetOf(desc)} :
        /\ description' = desc
        /\ target' = tgt
        /\ pulled' = pulled + 1
        /\ sample_pulls' = sample_pulls + 1
        /\ IF ~collision_check
           THEN /\ Accept(desc, tgt)
                /\ UNCHANGED <<n_rejections, ntrials, collider, warnings>>
           ELSE LET collided == Collide(Zeros, desc, 1)
                IN  /\ warnings' = IF Warns THEN warnings + 1 ELSE warnings
                    /\ ntrials' = ntrials + 1
                    /\ collider' = collided.collider
                    /\ IF ~collided.ok
                       THEN /\ pc' = "raised"
                            /\ UNCHANGED <<n_successes, n_rejections, data,
                                           targets, yielded>>
                       ELSE IF Overlap(collided.collider)
                       THEN /\ n_rejections' = n_rejections + 1
                            /\ pc' = "rejected"
                            /\ UNCHANGED <<n_successes, data, targets,
                                           yielded>>
                       ELSE /\ Accept(desc, tgt)
                            /\ UNCHANGED n_rejections
    /\ rate' = NoCall
    /\ UNCHANGED <<corruptor, config, perlin_calls>>

\* A rejection that ends the generator instead of retrying.
RetryGivesUp ==
    /\ pc = "rejected"
    /\ pc' = "raised"
    /\ UNCHANGED <<corruptor, config, n_successes, n_rejections, ntrials,
                   description, target, collider, data, targets, pulled,
                   yielded, sample_pulls, perlin_calls, warnings, rate>>

\* A retry that asks perlin_gen for a new canvas.
RetryNewField ==
    /\ pc = "rejected"
    /\ pc' = "trial"
    /\ description' = <<>>
    /\ target' = [k \in 1 .. nout |-> 0]
    /\ collider' = Zeros
    /\ IF enable_perlin
       THEN /\ data' = NoiseField(perlin_calls + 1)
            /\ perlin_calls' = perlin_calls + 1
       ELSE UNCHANGED <<data, perlin_calls>>
    /\ UNCHANGED <<corruptor, config, n_successes, n_rejections, ntrials,
                   targets, pulled, yielded, sample_pulls, warnings, rate>>

\* `continue`: back to the top of the retry loop.  The rejected description
\* and the accumulator's contents are dead: the next trial rebinds the one
\* and refills the other before reading them.
Retry ==
    /\ pc = "rejected"
    /\ pc' = "trial"
    /\ description' = <<>>
    /\ target' = [k \in 1 .. nout |-> 0]
    /\ collider' = Zeros
    /\ UNCHANGED <<corruptor, config, n_successes, n_rejections, ntrials, data,
                   targets, pulled, yielded, sample_pulls, perlin_calls,
                   warnings, rate>>

\* placer.rejection_rate()
RejectionRate ==
    /\ WithCaller
    /\ rate = NoCall        \* a second call in a row returns the same again
    /\ rate' = rejection_rate
    /\ UNCHANGED <<corruptor, config, n_successes, n_rejections, pc, ntrials,
                   description, target, collider, data, targets, pulled,
                   yielded, sample_pulls, perlin_calls, warnings>>

Next == Iter \/ Resume \/ Trial \/ Retry \/ RejectionRate

Spec == Init /\ [][Next]_vars

\* A collision-checking placer over a source that only proposes scenes with
\* overlapping footprints, or only scenes with disjoint ones.
InitSource ==
    /\ Constructed
    /\ gen \in {"overlapping", "disjoint"}
    /\ collision_check /\ ~enable_perlin

SpecSource == InitSource /\ [][Next]_vars

\* The same placer as Init's, on canvases of background noise.
InitPerlin == Constructed /\ gen = "any" /\ enable_perlin

SpecPerlin == InitPerlin /\ [][Next]_vars

\* The formats a source may declare.
Formats == {"array", "image"}

\* SpritePlacer(gen, collision_check) about to be called on a crowded source
\* of any format: no instance yet.
InitConstruct ==
    /\ NoCorruptor
    /\ gen = "crowded"
    /\ collision_check \in BOOLEAN
    /\ enable_perlin = FALSE
    /\ out_format \in Formats
    /\ n_successes = 0
    /\ n_rejections = 0
    /\ pc = "new"
    /\ ntrials = 0
    /\ description = <<>>
    /\ target = [k \in 1 .. nout |-> 0]
    /\ collider = Zeros
    /\ data = Zeros
    /\ targets = [k \in 1 .. nout |-> 0]
    /\ pulled = 0
    /\ yielded = 0
    /\ sample_pulls = 0
    /\ perlin_calls = 0
    /\ warnings = 0
    /\ rate = NoCall

\* __init__ without its assert.
InitUnchecked ==
    /\ pc = "new"
    /\ pc' = "constructed"
    /\ n_successes' = 0
    /\ n_rejections' = 0
    /\ UNCHANGED <<corruptor, config, ntrials, description, target, collider,
                   data, targets, pulled, yielded, sample_pulls, perlin_calls,
                   warnings, rate>>

\* __init__: the assert raises AssertionError out of the constructor and the
\* caller gets no instance; otherwise the counters are set and the instance
\* is returned.
SpritePlacerInit ==
    /\ pc = "new"
    /\ IF out_format = "array"
       THEN /\ pc' = "constructed"
            /\ n_successes' = 0
            /\ n_rejections' = 0
       ELSE /\ pc' = "failed"
            /\ UNCHANGED <<n_successes, n_rejections>>
    /\ UNCHANGED <<corruptor, config, ntrials, description, target, collider,
                   data, targets, pulled, yielded, sample_pulls, perlin_calls,
                   warnings, rate>>

NextConstruct == SpritePlacerInit \/ Next

SpecConstruct == InitConstruct /\ [][NextConstruct]_vars

\* A collision-checking placer over a crowded source.
InitCrowded ==
    /\ Constructed
    /\ gen = "crowded"
    /\ collision_check /\ ~enable_perlin

SpecCrowded == InitCrowded /\ [][Next]_vars

\* ------------------------------------------------------------ corruptor.py
\* numpy.random.RandomState, as far as the corruptors depend on it: a
\* generator whose state is set by its seed and advanced by every draw, the
\* draws being functions of the state.
RngModulus == 61

RandomState(seed) == (seed + 1) % RngModulus

Advance(state) == (17 * state + 7) % RngModulus

\* rng.randint(n): an integer in [0, n)
randint(state, n) ==
    [value |-> (1048573 * state + 12345) % n, state |-> Advance(state)]

\* Corruptor.__init__ with the noise source seeded by the rng argument
\* itself.
SeedDirectly(seed) == RandomState(seed)

\* Corruptor.__init__: rng = RandomState(rng); seed = int(rng.randint(2**30));
\* self.s_rng = RandomState(seed)
Seeded(seed) == RandomState(randint(RandomState(seed), SeedBelow).value)

\* The arrays a corruptor is called with: one axis, elements in units of
\* 1 / Res: one below -256, zero, and 255.
Pixels == {-256 * Res - 1, 0, Wrap * Res}

Inputs == UNION { [1 .. n -> Pixels] : n \in 1 .. MaxLen }

\* One draw of s_rng.binomial(n=1, p=1 - corruption_level): 1 when the
\* uniform variate of the state, one of MaxLevel equal parts of [0, 1), is
\* below p.
binomial(state, level) ==
    IF (state % MaxLevel) < MaxLevel - level THEN 1 ELSE 0

\* One draw of s_rng.normal(loc=0., scale=stdev), in units of 1 / Res: stdev
\* times a standard variate between -2 and 2.
normal(state, stdev) == stdev * ((state % (4 * Res + 1)) - 2 * Res)

\* The states of the generator at the draws of an array of n elements
\* (size=x.shape), and the state it is left in.
RECURSIVE Draws(_, _)
Draws(state, n) ==
    IF n = 0 THEN <<state>> ELSE <<state>> \o Draws(Advance(state), n - 1)

Ok(value) == [ok |-> TRUE, value |-> value, error |-> "none"]
Raise(error) == [ok |-> FALSE, value |-> <<>>, error |-> error]

\* |v|
abs(v) == IF v < 0 THEN 0 - v ELSE v

\* DummyCorruptor.__call__ drawing one variate per element.
DummyDrawing(state, level, x) ==
    [out |-> Ok(x), state |-> Draws(state, Len(x))[Len(x) + 1]]

\* DummyCorruptor.__call__
DummyCorruptor(state, level, x) == [out |-> Ok(x), state |-> state]

\* BinomialCorruptor._corrupt that masks every element.
BinomialMasking(state, level, x) ==
    LET at == Draws(state, Len(x))
    IN  [out |-> Ok([k \in 1 .. Len(x) |-> 0]), state |-> at[Len(x) + 1]]

\* BinomialCorruptor._corrupt
BinomialCorruptor(state, level, x) ==
    LET at == Draws(state, Len(x))
    IN  [out |-> Ok([k \in 1 .. Len(x) |-> binomial(at[k], level) * x[k]]),
         state |-> at[Len(x) + 1]]

\* GaussianCorruptor._corrupt without the abs.
GaussianSigned(state, stdev, x) ==
    LET at == Draws(state, Len(x))
    IN  [out |-> Ok([k \in 1 .. Len(x) |->
                       (normal(at[k], stdev) + x[k]) % (Wrap * Res)]),
         state |-> at[Len(x) + 1]]

\* GaussianCorruptor._corrupt
GaussianCorruptor(state, stdev, x) ==
    LET at == Draws(state, Len(x))
    IN  [out |-> Ok([k \in 1 .. Len(x) |->
                       abs(normal(at[k], stdev) + x[k]) % (Wrap * Res)]),
         state |-> at[Len(x) + 1]]

\* Corruptor.__call__
Corruptor(state, level, x) ==
    [out |-> Raise("NotImplementedError"), state |-> state]

\* cls(corruption_level, rng)(x) on a corruptor whose s_rng is state
Call(cls, state, level, x) ==
    CASE cls = "DummyCorruptor" -> DummyCorruptor(state, level, x)
      [] cls = "BinomialCorruptor" -> BinomialCorruptor(state, level, x)
      [] cls = "GaussianCorruptor" -> GaussianCorruptor(state, level, x)
      [] cls = "Corruptor" -> Corruptor(state, level, x)

\* globals() of corruptor.py: what each name is bound to.
Globals ==
    [ Corruptor |-> "class", DummyCorruptor |-> "class",
      BinomialCorruptor |-> "class", GaussianCorruptor |-> "class",
      np |-> "module", get |-> "function", __name__ |-> "str",
      __doc__ |-> "str" ]

Classes == {"Corruptor", "DummyCorruptor", "BinomialCorruptor",
            "GaussianCorruptor"}

\* The names get is asked for: the globals and two that are none.
Names == DOMAIN Globals \cup {"UniformCorruptor", ""}

\* get(str): globals()[str] raises KeyError on a name that is not bound;
\* issubclass raises TypeError on an object that is not a class; every
\* class of the module is a Corruptor.
get(str) ==
    IF str \notin DOMAIN Globals THEN Raise("KeyError")
    ELSE IF Globals[str] # "class" THEN Raise("TypeError")
    ELSE IF str \in Classes THEN Ok(str)
    ELSE Raise("NameError")

\* The placer of the model, not constructed.
NoPlacer ==
    /\ gen = "crowded"
    /\ collision_check = FALSE
    /\ enable_perlin = FALSE
    /\ out_format = "array"
    /\ n_successes = 0
    /\ n_rejections = 0
    /\ pc = "new"
    /\ ntrials = 0
    /\ description = <<>>
    /\ target = [k \in 1 .. nout |-> 0]
    /\ collider = Zeros
    /\ data = Zeros
    /\ targets = [k \in 1 .. nout |-> 0]
    /\ pulled = 0
    /\ yielded = 0
    /\ sample_pulls = 0
    /\ perlin_calls = 0
    /\ warnings = 0
    /\ rate = NoCall

placer == <<config, n_successes, n_rejections, pc, ntrials, description,
            target, collider, data, targets, pulled, yielded, sample_pulls,
            perlin_calls, warnings, rate>>

Seeds == (0 .. MaxSeed) \cup {DefaultSeed}

\* corruptor.py imported; the arguments two corruptors will be built from.
InitCorruptor ==
    /\ NoPlacer
    /\ got = Nothing
    /\ corruption_level \in 0 .. MaxLevel
    /\ rng \in Seeds
    /\ built = {}
    /\ s_rng = [i \in Instances |-> 0]
    /\ pending = Uncalled
    /\ returned = [x |-> <<>>, A |-> Nothing, B |-> Nothing]
    /\ calls = 0

\* get(name)
Get ==
    /\ got = Nothing
    /\ \E name \in Names : got' = get(name)
    /\ UNCHANGED <<placer, corruption_level, rng, built, s_rng, pending,
                   returned, calls>>

\* Every corruptor drawing from one generator.
Shared(i) == "A"

\* The generator corruptor i draws from: its own self.s_rng.
Own(i) == i

\* cls(corruption_level, rng) for the class get returned.
CorruptorInit ==
    /\ got.ok
    /\ \E i \in Instances \ built :
        /\ built' = built \cup {i}
        /\ s_rng' = [s_rng EXCEPT ![Own(i)] = Seeded(rng)]
    /\ UNCHANGED <<placer, got, corruption_level, rng, pending, returned,
                   calls>>

\* A call on one of the corruptors with a new input.
CallFirst ==
    /\ built = Instances
    /\ pending.who = "none"
    /\ calls < MaxCalls
    /\ \E i \in Instances : \E x \in Inputs :
        LET did == Call(got.value, s_rng[Own(i)], corruption_level, x)
        IN  /\ pending' = [who |-> i, x |-> x, out |-> did.out]
            /\ s_rng' = [s_rng EXCEPT ![Own(i)] = did.state]
    /\ returned' = [x |-> <<>>, A |-> Nothing, B |-> Nothing]
    /\ UNCHANGED <<placer, got, corruption_level, rng, built, calls>>

\* The same call on the other corruptor.
CallSecond ==
    /\ pending.who # "none"
    /\ \E i \in Instances \ {pending.who} :
        LET did == Call(got.value, s_rng[Own(i)], corruption_level,
                        pending.x)
        IN  /\ returned' = [returned EXCEPT !.x = pending.x,
                                            ![pending.who] = pending.out,
                                            ![i] = did.out]
            /\ s_rng' = [s_rng EXCEPT ![Own(i)] = did.state]
    /\ pending' = Uncalled
    /\ calls' = calls + 1
    /\ UNCHANGED <<placer, got, corruption_level, rng, built>>

NextCorruptor == Get \/ CorruptorInit \/ CallFirst \/ CallSecond

SpecCorruptor == InitCorruptor /\ [][NextCorruptor]_vars

TypeOK ==
    /\ n_successes \in 0 .. PullCap
    /\ n_rejections \in 0 .. PullCap
    /\ pc \in {"new", "failed", "constructed", "trial", "rejected", "yielded",
              "raised"}
    /\ Len(description) <= MaxSprites

\* ------------------------------------------------------------ the claims
\* A collision-checked trial has been judged: its description, accumulator
\* and outcome are in the state.
Judged == collision_check /\ pc \in {"rejected", "yielded", "raised"}

\* The margined footprint of p reaches past an edge of the canvas.
PastEdge(p) ==
    \/ p.y - p.sprite.marginh < 0
    \/ p.y + p.sprite.h + p.sprite.marginh > self_h
    \/ p.x - p.sprite.marginw < 0
    \/ p.x + p.sprite.w + p.sprite.marginw > self_w

\* The number of sprites of desc whose margined footprint covers cell rc.
Covering(desc, rc) ==
    Cardinality({ i \in 1 .. Len(desc) : rc \in Footprint(desc[i]) })

\* C1: with collision_check on (masks all ones), a yielded sample comes from
\* a description in which no canvas cell lies under the margined footprints
\* of two or more sprites.
C1_YieldedFootprintsDisjoint ==
    (collision_check /\ pc = "yielded") => ~HasOverlap(description)

\* C2: in a collision-checked trial, sprites whose margined footprint reaches
\* past a canvas edge are accumulated on exactly the in-bounds part of the
\* footprint, and a single such sprite is not rejected.
C2_ClippedFootprintAccumulated ==
    (Judged /\ \A i \in 1 .. Len(description) : PastEdge(description[i]))
        => /\ \A rc \in Cells : collider[rc] = Covering(description, rc)
           /\ (Len(description) = 1 => pc # "rejected")

\* C3: in a collision-checked trial, sprites whose margined footprint lies
\* within the canvas (its last row or column included) are accumulated with
\* their full mask, no row or column dropped.
C3_InsideFootprintAccumulated ==
    (Judged /\ \A i \in 1 .. Len(description) : ~PastEdge(description[i]))
        => \A rc \in Cells : collider[rc] = Covering(description, rc)

\* C4: with collision_check on and a source all of whose descriptions have
\* two sprites with overlapping margined footprints, no sample is ever
\* yielded: every trial is a rejection and n_successes stays 0.
C4_OverlappingNeverYields ==
    (collision_check /\ gen = "overlapping")
        => /\ n_successes = 0
           /\ yielded = 0
           /\ n_rejections = pulled

\* The patch of p lies on the canvas.
PatchOnCanvas(p) ==
    p.x + p.sprite.w <= self_w /\ p.y + p.sprite.h <= self_h

C6_OneCounterPerTrial ==
    /\ n_successes = 0 /\ n_rejections = 0
    /\ [][ /\ n_successes' >= n_successes
           /\ n_rejections' >= n_rejections
           /\ pulled' = pulled + 1 =>
                /\ n_successes' + n_rejections' = n_successes + n_rejections + 1
                /\ (pc' = "rejected") <=> (n_rejections' = n_rejections + 1)
           /\ pulled' = pulled => UNCHANGED <<n_successes, n_rejections>> ]_vars

\* C7: rejection_rate() returns null exactly when no trial has been counted,
\* otherwise the quotient n_rejections / (n_successes + n_rejections), and
\* the call changes nothing but its result.
C7_RejectionRate ==
    [][ rate' # NoCall =>
          /\ (rate' = Null) <=> (n_successes + n_rejections = 0)
          /\ rate' # Null =>
                /\ rate'.result = "float" /\ rate'.den > 0
                /\ rate'.num * (n_successes + n_rejections)
                      = n_rejections * rate'.den
          /\ UNCHANGED <<config, n_successes, n_rejections, pc, ntrials,
                         description, target, collider, data, targets,
                         pulled, yielded, sample_pulls, perlin_calls,
                         warnings>> ]_vars

C7_Witness ==
    /\ rate.result = "float" /\ 2 * rate.num = rate.den
    /\ n_rejections = 1 /\ n_successes = 1

\* The background the canvas of the current sample was initialised with.
Background == IF enable_perlin THEN NoiseField(perlin_calls) ELSE Zeros

\* The sprites of desc whose patch rectangle [y, y+h) x [x, x+w) holds rc.
Painting(desc, rc) ==
    { i \in 1 .. Len(desc) :
        /\ desc[i].y <= rc[1] /\ rc[1] < desc[i].y + desc[i].sprite.h
        /\ desc[i].x <= rc[2] /\ rc[2] < desc[i].x + desc[i].sprite.w }

\* The pixel at rc of a scene of desc: the patch pixel of the last sprite
\* painting rc, the background where there is none.
ScenePixel(desc, rc) ==
    LET on == Painting(desc, rc)
        last == CHOOSE i \in on : \A j \in on : j <= i
    IN  IF on = {} THEN Background[rc]
        ELSE Patch(desc[last].sprite)[<<rc[1] - desc[last].y,
                                        rc[2] - desc[last].x>>]

\* C8: a yielded canvas is the fresh background overwritten, in description
\* order, by the patches of the accepted description alone, each at its
\* coordinate (the last sprite wins a shared pixel; no mask, no margin, no
\* trace of a rejected trial), and the yielded target is that description's.
C8_YieldedScene ==
    pc = "yielded" =>
        /\ \A rc \in Cells :
              /\ data[rc] = ScenePixel(description, rc)
              /\ reshape(data)[rc[1] * self_w + rc[2]] = data[rc]
        /\ targets = target

C8_Witness ==
    /\ pc = "yielded" /\ collision_check
    /\ n_rejections = 1 /\ n_successes = 1
    /\ Len(description) = 2

\* C9: with collision_check off, every sample takes exactly one description
\* from the source, no description is rejected wherever its sprites are,
\* n_rejections stays 0 and n_successes is the number of samples yielded.
C9_NoCheckOneTrialPerSample ==
    ~collision_check
        => /\ n_rejections = 0
           /\ pc # "rejected"
           /\ n_successes = yielded
           /\ sample_pulls <= 1
           /\ pc = "yielded" => sample_pulls = 1

C9_Witness ==
    /\ ~collision_check /\ pc = "yielded"
    /\ HasOverlap(description)
    /\ n_successes = 2 /\ n_rejections = 0

\* A description the collision check has nothing against and whose patches
\* lie on the canvas.
Acceptable(desc) ==
    ~HasOverlap(desc) /\ \A i \in 1 .. Len(desc) : PatchOnCanvas(desc[i])

\* C10: in collision-check mode a rejection neither raises nor ends the
\* stream: the generator can always go on from it, however many rejections
\* there have been, its next step is back to a trial with the counters and
\* the canvas kept, that trial pulls a further description, and an
\* acceptable description is yielded whatever was rejected before it.
C10_RejectionRetries ==
    /\ [](pc = "rejected" => (collision_check /\ ENABLED Retry))
    /\ [](pc = "trial" /\ pulled < MaxTrials => ENABLED Trial)
    /\ [][ /\ pc = "rejected" =>
                /\ pc' = "trial"
                /\ UNCHANGED <<n_successes, n_rejections, pulled, yielded,
                               data>>
           /\ (pc = "trial" /\ pc' # "trial") => pulled' = pulled + 1
           /\ (pc = "trial" /\ collision_check /\ pulled' = pulled + 1
                            /\ Acceptable(description'))
                => (pc' = "yielded" /\ yielded' = yielded + 1) ]_vars

C10_Witness ==
    /\ pc = "yielded" /\ collision_check
    /\ n_rejections = MaxTrials - 1 /\ sample_pulls = MaxTrials
    /\ Acceptable(description)

\* What a collision-checked trial of desc on canvas dat comes to.
Verdict(dat, desc) ==
    LET collided == Collide(Zeros, desc, 1)
    IN  IF ~collided.ok THEN "raised"
        ELSE IF Overlap(collided.collider) THEN "rejected"
        ELSE IF Paint(dat, desc, 1).ok THEN "yielded"
        ELSE "raised"

\* C11: the warning is written only by a collision-checked trial, while
\* n_successes is 0, when the trials already made for the sample are a
\* positive multiple of 1000 (the trial starting is number 1001, 2001, ...),
\* once for that multiple; the step that writes it is an ordinary trial: it
\* counts itself, pulls one description, judges it as any trial would and a
\* rejection can retry.
C11_WarningOnly ==
    /\ [](warnings > 0 => collision_check)
    /\ [](pc = "rejected" => ENABLED Retry)
    /\ [][ /\ warnings' # warnings =>
                /\ warnings' = warnings + 1
                /\ pc = "trial" /\ collision_check
                /\ n_successes = 0 /\ yielded = 0
                /\ ntrials >= WarnEvery /\ ntrials % WarnEvery = 0
                /\ ntrials' = ntrials + 1
           /\ (pc = "trial" /\ collision_check /\ n_successes > 0)
                => warnings' = warnings
           /\ (pc = "trial" /\ collision_check) =>
                /\ pulled' = pulled + 1
                /\ pc' = Verdict(data, description')
                /\ n_rejections' =
                      n_rejections + (IF pc' = "rejected" THEN 1 ELSE 0)
                /\ n_successes' =
                      n_successes + (IF pc' = "yielded" THEN 1 ELSE 0) ]_vars

C11_Witness ==
    /\ warnings = 2 /\ pc = "rejected"
    /\ ntrials = 2 * WarnEvery + 1 /\ n_rejections = ntrials

\* C12 as stated: with background noise on, one field has been requested
\* from perlin_gen for every trial made, with or without collision check.
C12_FieldPerTrial ==
    (enable_perlin /\ pc \in {"rejected", "yielded", "raised"})
        => perlin_calls = pulled

\* C12: with background noise on, one field is requested per sample, at the
\* top of the outer loop: a retry requests none and the trials of a sample
\* all see the field the sample started with, so when a sample has been
\* yielded (or its trial raised) the fields requested are the trials made
\* less the rejections; without collision check that is every trial.
C12_FieldPerSample ==
    /\ [](enable_perlin /\ pc \in {"yielded", "raised"}
            => perlin_calls = pulled - n_rejections)
    /\ [](enable_perlin /\ ~collision_check /\ pc \in {"yielded", "raised"}
            => perlin_calls = pulled)
    /\ [](enable_perlin /\ pc \in {"trial", "rejected"}
            => data = NoiseField(perlin_calls))
    /\ [][ /\ (enable_perlin /\ WithCaller /\ pc' = "trial")
                => (perlin_calls' = perlin_calls + 1
                      /\ data' = NoiseField(perlin_calls'))
           /\ ~(WithCaller /\ pc' = "trial")
                => perlin_calls' = perlin_calls
           /\ pc = "rejected" => data' = data ]_vars

C12_Witness ==
    /\ enable_perlin /\ collision_check /\ pc = "yielded"
    /\ n_rejections = 1 /\ pulled = 2 /\ perlin_calls = 1

\* C13: constructing a placer on a source whose out_format is not 'array'
\* fails in the constructor: no instance comes of it, so nothing can be
\* iterated, nothing is pulled from the source and no method can be called;
\* on an 'array' source construction succeeds with both counters at 0.
C13_ConstructionFails ==
    /\ [](out_format # "array" =>
            /\ pc \in {"new", "failed"}
            /\ pulled = 0 /\ yielded = 0)
    /\ [](pc = "failed" =>
            ~ENABLED Iter /\ ~ENABLED Trial /\ ~ENABLED RejectionRate)
    /\ [](pc = "new" => ENABLED SpritePlacerInit /\ ~ENABLED Next)
    /\ [][ pc = "new" =>
             /\ pc' = (IF out_format = "array" THEN "constructed" ELSE "failed")
             /\ pulled' = 0 /\ n_successes' = 0 /\ n_rejections' = 0 ]_vars

C13_Witness == pc = "failed" /\ out_format = "image" /\ pulled = 0

\* A call has been made on both corruptors and none is half-way.
BothCalled == pending.who = "none" /\ calls > 0

\* C14: two corruptors of one variant built from the same corruption_level
\* and the same seed return the same output at every call of the same
\* sequence of calls, whichever of the two is called first, and are left
\* with their generators in the same state; each generator is seeded with
\* an integer below 2^30 drawn from a generator seeded with the rng argument.
C14_SameSeedSameOutputs ==
    /\ [](BothCalled => (returned.A = returned.B /\ s_rng.A = s_rng.B))
    /\ [](randint(RandomState(rng), SeedBelow).value \in 0 .. SeedBelow - 1)
    /\ [][ \A i \in built' \ built :
             s_rng'[i] =
                RandomState(randint(RandomState(rng), SeedBelow).value) ]_vars

C14_Witness ==
    /\ BothCalled /\ calls = MaxCalls
    /\ got.value = "BinomialCorruptor" /\ corruption_level = 1
    /\ returned.A = returned.B
    /\ returned.A.value # returned.x
    /\ \E k \in 1 .. Len(returned.x) :
          returned.x[k] # 0 /\ returned.A.value[k] = returned.x[k]

\* out is x with some elements masked to 0, as the level allows.
Masked(x, out) ==
    /\ out.ok
    /\ Len(out.value) = Len(x)
    /\ \A k \in 1 .. Len(x) : out.value[k] \in {x[k], 0}
    /\ corruption_level = 0 => out.value = x
    /\ corruption_level = MaxLevel =>
            \A k \in 1 .. Len(x) : out.value[k] = 0

\* C15: every call of a BinomialCorruptor returns an array of the shape of
\* its input whose elements are the input's or 0; all are the input's at
\* corruption_level 0 and all are 0 at corruption_level 1.
C15_BinomialMasks ==
    got.value = "BinomialCorruptor" =>
        /\ pending.who # "none" => Masked(pending.x, pending.out)
        /\ BothCalled =>
              Masked(returned.x, returned.A) /\ Masked(returned.x, returned.B)

C15_Witness ==
    /\ got.value = "BinomialCorruptor" /\ BothCalled
    /\ corruption_level \notin {0, MaxLevel}
    /\ \E k, j \in 1 .. Len(returned.x) :
          /\ returned.x[k] # 0 /\ returned.A.value[k] = returned.x[k]
          /\ returned.x[j] # 0 /\ returned.A.value[j] = 0

\* The values the standard variate of the model takes, in units of 1 / Res.
Variates == (0 - 2 * Res) .. (2 * Res)

\* out is |x + noise| mod 255 element by element, for noise the generator
\* can draw at this stdev, and lies in [0, 255).
Wrapped(x, out) ==
    /\ out.ok
    /\ Len(out.value) = Len(x)
    /\ \A k \in 1 .. Len(x) :
          /\ 0 <= out.value[k] /\ out.value[k] < Wrap * Res
          /\ \E z \in Variates :
                out.value[k] = abs(x[k] + corruption_level * z) % (Wrap * Res)

\* C16: every element of the output of a GaussianCorruptor is
\* |input + noise| mod 255, so at least 0 and below 255, and the output has
\* the shape of the input: at every call made, and for every element from
\* -257 to 257 in steps of 1 / Res under every state of the generator.
C16_GaussianWraps ==
    got.value = "GaussianCorruptor" =>
        /\ pending.who # "none" => Wrapped(pending.x, pending.out)
        /\ BothCalled =>
              Wrapped(returned.x, returned.A) /\ Wrapped(returned.x, returned.B)
        /\ built = {} =>
              \A v \in (0 - (Wrap + 2) * Res) .. ((Wrap + 2) * Res) :
                \A state \in 0 .. RngModulus - 1 :
                    Wrapped(<<v>>, GaussianCorruptor(
                                       state, corruption_level, <<v>>).out)

C16_Witness ==
    /\ got.value = "GaussianCorruptor" /\ BothCalled
    /\ corruption_level > 0
    /\ \E k, j \in 1 .. Len(returned.x) :
          /\ returned.x[k] < 0
          /\ returned.A.value[k] # abs(returned.x[k]) % (Wrap * Res)
          /\ returned.x[j] = Wrap * Res
          /\ returned.A.value[j] > Wrap * Res - 2 * Res

\* C17: get(name) returns the class when name is a Corruptor class of the
\* module, fails with KeyError (not found) when the module has no such name,
\* and fails with NameError (not a valid variant) when the name is bound to
\* anything else, the module np and the function get included.
C17_GetErrors ==
    \A name \in Names :
        (got # Nothing /\ got = get(name)) =>
            IF name \notin DOMAIN Globals THEN got.error = "KeyError"
            ELSE IF name \in Classes THEN got = Ok(name)
            ELSE got.error = "NameError"

\* C18: every call of a DummyCorruptor returns its input and draws nothing:
\* the generator of each instance stays as its constructor seeded it,
\* however many calls were made.
C18_DummyIdentity ==
    got.value = "DummyCorruptor" =>
        /\ pending.who # "none" => pending.out = Ok(pending.x)
        /\ BothCalled =>
              returned.A = Ok(returned.x) /\ returned.B = Ok(returned.x)
        /\ \A i \in built : s_rng[i] = Seeded(rng)

C18_Witness ==
    /\ got.value = "DummyCorruptor" /\ BothCalled /\ calls = MaxCalls
    /\ Len(returned.x) = MaxLen
    /\ returned.A = Ok(returned.x)
    /\ s_rng.A = Seeded(rng) /\ s_rng.B = Seeded(rng)

\* Lines 138-143 take the clipped branch for p.
Clipped(p) ==
    \/ p.y - p.sprite.marginh < 0
    \/ p.y + p.sprite.h + p.sprite.marginh >= self_h
    \/ p.x - p.sprite.marginw < 0
    \/ p.x + p.sprite.w + p.sprite.marginw >= self_w

\* The slices MaskSlice(p) gives are in range, not reversed and of equal
\* extents on both sides of the +=.
SlicesAgree(p) ==
    LET sl == MaskSlice(p)
    IN  /\ 0 <= sl.ba /\ sl.ba <= sl.bb /\ sl.bb <= mh(p.sprite)
        /\ 0 <= sl.bc /\ sl.bc <= sl.bd /\ sl.bd <= mw(p.sprite)
        /\ 0 <= sl.a /\ sl.a <= sl.b /\ sl.b <= self_h
        /\ 0 <= sl.c /\ sl.c <= sl.d /\ sl.d <= self_w
        /\ sl.bb - sl.ba = sl.b - sl.a
        /\ sl.bd - sl.bc = sl.d - sl.c

\* C19: in every collision-checked trial, every sprite of the description
\* that takes the clipped branch gets a destination rectangle and a mask
\* region of the same numbers of rows and columns, the mask indices within
\* [0, mh] and [0, mw] and no range reversed, and the accumulation does not
\* raise for its shapes.
C19_ClippedShapesAgree ==
    Judged =>
        /\ \A i \in 1 .. Len(description) :
              Clipped(description[i]) =>
                  SlicesAgree(description[i]) /\ MaskFits(description[i])
        /\ Collide(Zeros, description, 1).ok

C19_Witness ==
    /\ Judged /\ pc = "yielded"
    /\ \E i \in 1 .. Len(description) :
          LET p == description[i]
          IN  /\ p.y - p.sprite.marginh < 0
              /\ p.y + p.sprite.h + p.sprite.marginh >= self_h
              /\ p.x - p.sprite.marginw < 0
              /\ p.x + p.sprite.w + p.sprite.marginw > self_w
              /\ mw(p.sprite) > self_w

\* C20: at every yield, in both modes and whatever iterations were started
\* on the instance before, n_successes + n_rejections is the number of
\* descriptions pulled from the source through the instance and n_successes
\* the number of samples it yielded.
C20_CountersMatchPulls ==
    pc = "yielded" =>
        /\ n_successes + n_rejections = pulled
        /\ n_successes = yielded

====
